---- MODULE Spec2Model ----
(***************************************************************************)
(* Session/token lifecycle of the eskon web client: AuthService (tokens in *)
(* localStorage, expiry marker in a cookie, one refresh timer), the token  *)
(* and error interceptors, and the AccountService profile cache.           *)
(* Time is in milliseconds.  Every action is one event-loop task.          *)
(***************************************************************************)
EXTENDS Integers, Sequences, FiniteSets, TLC

\* ------------------------------------------------------------------ bounds
MaxRequests == 2      \* HTTP requests sent in one run
MaxTimers   == 3      \* timer handles the browser hands out
MaxTime     == 1000   \* clock horizon, ms
MaxLifetime == 11     \* largest expiresIn (seconds) the server reports

TickMs == 500
Lifetimes == {1} \cup (10..MaxLifetime)

\* ------------------------------------------------------------------ values
Null      == "null"            \* JavaScript null / undefined
NoTimer   == 0                 \* refreshTimer === null
NoDate    == -1                \* getTokenExpiration() === null
NoPayload == <<>>              \* optional payload argument omitted

\* token pairs the identity endpoint hands out (AuthResponse.token, .refreshToken)
TokenPairs == {<<"a1", "r1">>, <<"a2", "r2">>}

Truthy(v) == v # Null /\ v # ""

Max(a, b) == IF a >= b THEN a ELSE b

\* ------------------------------------------------------------------ state
VARIABLES
  accessToken,    \* localStorage['accessToken']
  refreshToken,   \* localStorage['refreshToken']
  cookies,        \* document.cookie: set of [value, expires] for tokenExpiration
  refreshTimer,   \* AuthService.refreshTimer (handle or NoTimer)
  timers,         \* armed browser timers: set of [id, delay, due]
  inflight,       \* HTTP requests sent, response not yet delivered
  profile,        \* AccountService.profileSubject.value
  route,          \* Router location
  now,            \* Date.now()
  issued,         \* number of HTTP requests sent so far
  last,           \* the task that ran last, with what its caller observed
  autoFailed,     \* history: a refresh started by the service itself has failed
                  \* and no login has succeeded since
  failure,        \* the HttpErrorResponse handed to the error interceptor alone
  jwtToken,       \* the token handed to a function of jwt.util.ts
  jwtResult       \* the function of jwt.util.ts that ran last, and its outcome

vars == <<accessToken, refreshToken, cookies, refreshTimer, timers, inflight,
          profile, route, now, issued, last, autoFailed, failure,
          jwtToken, jwtResult>>

\* The mutable state a handler works on, threaded through the calls it makes.
\* sent: requests issued by the running task; result: what the observable
\* returned to the task's caller has emitted ("none", "pending", "next", "error");
\* toast: the message the task handed to ToastService, if any.
S ==
  [at |-> accessToken, rt |-> refreshToken, jar |-> cookies,
   timer |-> refreshTimer, armed |-> timers, net |-> inflight,
   profile |-> profile, route |-> route, n |-> issued, sent |-> {},
   result |-> "none",
   toast |-> <<>>, errorToasts |-> 0]

\* ------------------------------------------------------------------ cookies
\* expires=toUTCString() has second precision; value is the ISO string (ms).
\* The jar keeps what was written; document.cookie shows a cookie only while
\* its expiry is in the future.
setCookie(s, value, expires) ==
  LET exp == (expires \div 1000) * 1000
  IN  [s EXCEPT !.jar = {[value |-> value, expires |-> exp]}]

getCookie(s) ==
  LET live == {c \in s.jar : c.expires > now}
  IN  IF live = {} THEN NoDate ELSE (CHOOSE c \in live : TRUE).value

deleteCookie(s) == [s EXCEPT !.jar = {}]

\* ------------------------------------------------------------------ AuthService
setAccessToken(s, value) ==
  [s EXCEPT !.at = IF Truthy(value) THEN value ELSE Null]

setRefreshToken(s, value) ==
  [s EXCEPT !.rt = IF Truthy(value) THEN value ELSE Null]

\* faulty variant: authentication also asks for a live expiry marker
isAuthenticated_needsMarker(s) == Truthy(s.at) /\ getCookie(s) # NoDate

isAuthenticated(s) == Truthy(s.at)

clearRefreshTimer(s) ==
  IF s.timer # NoTimer
    THEN [s EXCEPT !.armed = {t \in s.armed : t.id # s.timer},
                   !.timer = NoTimer]
    ELSE s

\* faulty variant: the timer survives the clear
clearTokens_keepTimer(s) ==
  deleteCookie(setRefreshToken(setAccessToken(s, Null), Null))

\* faulty variant: the refresh token is left in storage
clearTokens_keepRefresh(s) ==
  clearRefreshTimer(deleteCookie(setAccessToken(s, Null)))

clearTokens(s) ==
  clearRefreshTimer(deleteCookie(setRefreshToken(setAccessToken(s, Null), Null)))

storeTokenExpiration(s, expiresIn) ==
  LET expirationDate == now + expiresIn * 1000
  IN  setCookie(s, expirationDate, expirationDate)

getTokenExpiration(s) == getCookie(s)

\* faulty variant: the header is never attached
tokenInterceptor_anonymous(s) == Null

\* tokenInterceptor: hdr is the token of 'Authorization: Bearer <token>', read
\* from storage when the request is sent; Null stands for no header.
tokenInterceptor(s) == IF Truthy(s.at) THEN s.at ELSE Null

\* HttpClient request, subscribed: passes the token interceptor and is sent.
httpSend(s, kind, payload, by) ==
  LET req == [id |-> s.n + 1, kind |-> kind, payload |-> payload,
              hdr |-> tokenInterceptor(s), by |-> by]
  IN  [s EXCEPT !.net = @ \cup {req}, !.sent = @ \cup {req}, !.n = @ + 1,
                !.result = "pending"]

\* faulty variant: the presence check is missing
refreshAccessToken_noCheck(s, payload, by) ==
  httpSend(s, "refresh",
           IF payload # NoPayload THEN payload ELSE <<s.at, s.rt>>, by)

\* synchronous part of refreshAccessToken(payload?) once subscribed
refreshAccessToken(s, payload, by) ==
  LET currentToken == s.at
      currentRefreshToken == s.rt
  IN  IF ~Truthy(currentToken) \/ ~Truthy(currentRefreshToken)
        THEN [s EXCEPT !.result = "error"]
        ELSE httpSend(s, "refresh",
                      IF payload # NoPayload THEN payload
                      ELSE <<currentToken, currentRefreshToken>>, by)

\* setTimeout returns a handle that no armed timer has and that the service
\* does not hold (browser handles are never reused)
FreeHandles(s) ==
  (1..(Cardinality(s.armed) + 2)) \ ({t.id : t \in s.armed} \cup {s.timer})

\* faulty variant: the 10 second margin is missing
scheduleTokenRefresh_noMargin(s, expiresIn) ==
  LET s1 == clearRefreshTimer(s)
      refreshInMs == Max(0, expiresIn * 1000)
  IN  IF refreshInMs <= 0
        THEN [refreshAccessToken(s1, NoPayload, "schedule")
                EXCEPT !.result = s1.result]
        ELSE LET h == CHOOSE i \in FreeHandles(s) : TRUE
             IN  [s1 EXCEPT !.armed = @ \cup {[id |-> h, delay |-> refreshInMs,
                                               due |-> now + refreshInMs]},
                            !.timer = h]

\* faulty variant: the previous timer is not cancelled before a new one is armed
scheduleTokenRefresh_noClear(s, expiresIn) ==
  LET refreshInMs == Max(0, (expiresIn - 10) * 1000)
  IN  IF refreshInMs <= 0
        THEN [refreshAccessToken(s, NoPayload, "schedule")
                EXCEPT !.result = s.result]
        ELSE LET h == CHOOSE i \in FreeHandles(s) : TRUE
             IN  [s EXCEPT !.armed = @ \cup {[id |-> h, delay |-> refreshInMs,
                                              due |-> now + refreshInMs]},
                           !.timer = h]

scheduleTokenRefresh(s, expiresIn) ==
  LET s1 == clearRefreshTimer(s)
      refreshInMs == Max(0, (expiresIn - 10) * 1000)
  IN  IF refreshInMs <= 0
        THEN \* subscribe({error: () => {}}): the outcome stays with the service
             [refreshAccessToken(s1, NoPayload, "schedule")
                EXCEPT !.result = s1.result]
        ELSE LET h == CHOOSE i \in FreeHandles(s) : TRUE
             IN  [s1 EXCEPT !.armed = @ \cup {[id |-> h, delay |-> refreshInMs,
                                               due |-> now + refreshInMs]},
                            !.timer = h]

\* tap() of login
loginTap(s, response) ==
  scheduleTokenRefresh(
    storeTokenExpiration(
      setRefreshToken(setAccessToken(s, response.token), response.refreshToken),
      response.expiresIn),
    response.expiresIn)

\* faulty variant: the refreshed tokens are stored but nothing is scheduled
refreshTap_noSchedule(s, response) ==
  storeTokenExpiration(
    setRefreshToken(setAccessToken(s, response.token), response.refreshToken),
    response.expiresIn)

\* tap() of refreshAccessToken
refreshTap(s, response) ==
  scheduleTokenRefresh(
    storeTokenExpiration(
      setRefreshToken(setAccessToken(s, response.token), response.refreshToken),
      response.expiresIn),
    response.expiresIn)

\* faulty variant: a failed refresh keeps the session
refreshFailed_noClear(s) == [s EXCEPT !.result = "error"]

\* catchError() of refreshAccessToken
refreshFailed(s) ==
  [clearRefreshTimer(clearTokens(s)) EXCEPT !.result = "error"]

\* faulty variant: an explicit payload is sent even when storage is empty
revokeRefreshToken_payloadFirst(s, payload, by) ==
  IF payload # NoPayload THEN httpSend(s, "revoke", payload, by)
  ELSE IF ~Truthy(s.at) \/ ~Truthy(s.rt)
    THEN [s EXCEPT !.result = "next"]
    ELSE httpSend(s, "revoke", <<s.at, s.rt>>, by)

\* synchronous part of revokeRefreshToken(payload?) once subscribed
revokeRefreshToken(s, payload, by) ==
  LET currentToken == s.at
      currentRefreshToken == s.rt
  IN  IF ~Truthy(currentToken) \/ ~Truthy(currentRefreshToken)
        THEN [s EXCEPT !.result = "next"]
        ELSE httpSend(s, "revoke",
                      IF payload # NoPayload THEN payload
                      ELSE <<currentToken, currentRefreshToken>>, by)

\* faulty variant: a successful revocation keeps the session
revoked_noClear(s) == [s EXCEPT !.result = "next"]

\* tap() of revokeRefreshToken
revoked(s) == [clearRefreshTimer(clearTokens(s)) EXCEPT !.result = "next"]

\* faulty variant: logout revokes without clearing first
logout_noClear(s) ==
  LET currentToken == s.at
      refreshTok == s.rt
  IN  IF Truthy(currentToken) /\ Truthy(refreshTok)
        THEN revokeRefreshToken(s, <<currentToken, refreshTok>>, "logout")
        ELSE [s EXCEPT !.result = "next"]

logout(s) ==
  LET currentToken == s.at
      refreshTok == s.rt
      s1 == clearRefreshTimer(clearTokens(s))
  IN  IF Truthy(currentToken) /\ Truthy(refreshTok)
        THEN revokeRefreshToken(s1, <<currentToken, refreshTok>>, "logout")
        ELSE [s1 EXCEPT !.result = "next"]

\* faulty variant: a missing marker is taken for an expired token
initializeTokenRefresh_refreshBlind(s) ==
  IF ~isAuthenticated(s) THEN s
  ELSE LET expirationDate == getTokenExpiration(s)
           expiresInSeconds == (expirationDate - now) \div 1000
       IN  IF expirationDate = NoDate \/ expiresInSeconds <= 0
             THEN [refreshAccessToken(s, NoPayload, "init")
                     EXCEPT !.result = s.result]
             ELSE scheduleTokenRefresh(s, expiresInSeconds)

\* faulty variant: the remaining lifetime is rounded up
initializeTokenRefresh_roundUp(s) ==
  IF ~isAuthenticated(s) THEN s
  ELSE LET expirationDate == getTokenExpiration(s)
       IN  IF expirationDate = NoDate THEN s
           ELSE scheduleTokenRefresh(s, ((expirationDate - now) \div 1000) + 1)

initializeTokenRefresh(s) ==
  IF ~isAuthenticated(s) THEN s
  ELSE LET expirationDate == getTokenExpiration(s)
       IN  IF expirationDate = NoDate THEN s
           ELSE LET expiresInMs == expirationDate - now
                    expiresInSeconds == expiresInMs \div 1000
                IN  IF expiresInSeconds <= 0
                      THEN [refreshAccessToken(s, NoPayload, "init")
                              EXCEPT !.result = s.result]
                      ELSE scheduleTokenRefresh(s, expiresInSeconds)

\* ------------------------------------------------------------------ AccountService
clearProfile(s) == [s EXCEPT !.profile = Null]

navigate(s, url) == [s EXCEPT !.route = url]

\* ------------------------------------------------------------------ error interceptor
\* An HttpErrorResponse is [status, body]; a body is
\*   kind      : "null" | "event" (ErrorEvent) | "string" | "object"
\*   permText  : the lower-cased text of body and message holds one of the
\*               permission keywords
\*   errorsKind: "none" | "array" | "object";  errArr / errObj: its content
\*   title, message: the fields of ApiErrorResponse (Null when missing)
NoBody ==
  [kind |-> "null", permText |-> FALSE, errorsKind |-> "none", errArr |-> <<>>,
   errObj |-> <<>>, title |-> Null, message |-> Null]

ErrorEventBody == [NoBody EXCEPT !.kind = "event"]

\* bodies the backend answers with: none, a problem-details object with a
\* title, and the ["ErrorCode", "Error message"] array form
ServerBodies ==
  { NoBody,
    [NoBody EXCEPT !.kind = "object", !.title = "Unauthorized"],
    [NoBody EXCEPT !.kind = "object", !.errorsKind = "array",
                   !.errArr = <<"Code", "Invalid token">>] }

ServerStatuses == {401, 403, 500}

Errors ==
  {[status |-> st, body |-> b] : st \in ServerStatuses, b \in ServerBodies}
    \cup {[status |-> 0, body |-> NoBody], [status |-> 0, body |-> ErrorEventBody]}

\* a failed connection: status 0 and nothing of an API error in the body
NetworkFailure == [status |-> 0, body |-> NoBody]

RECURSIVE Flatten(_)
Flatten(ss) == IF ss = <<>> THEN <<>> ELSE Head(ss) \o Flatten(Tail(ss))

RECURSIVE Join(_)
Join(ms) ==
  IF Len(ms) = 1 THEN <<Head(ms)>> ELSE <<Head(ms), "; ">> \o Join(Tail(ms))

PermissionMessage == "Unable to upload image: Server permission error."

\* faulty variant: the first element of an errors array is taken
extractErrorMessages_firstElement(apiError, errorResponse) ==
  IF errorResponse.body.permText THEN <<PermissionMessage>>
  ELSE IF apiError.kind = "null" \/ apiError.kind = "string" THEN <<>>
  ELSE LET fromErrors ==
             IF apiError.errorsKind = "array"
               THEN IF Len(apiError.errArr) > 0 /\ Truthy(apiError.errArr[1])
                      THEN <<apiError.errArr[1]>>
                      ELSE <<>>
             ELSE IF apiError.errorsKind = "object"
               THEN SelectSeq(Flatten(apiError.errObj), Truthy)
             ELSE <<>>
       IN  IF Len(fromErrors) = 0
             THEN IF Truthy(apiError.title) THEN <<apiError.title>>
                  ELSE IF Truthy(apiError.message) THEN <<apiError.message>>
                  ELSE <<>>
             ELSE fromErrors

extractErrorMessages(apiError, errorResponse) ==
  IF errorResponse.body.permText THEN <<PermissionMessage>>
  ELSE IF apiError.kind = "null" \/ apiError.kind = "string" THEN <<>>
  ELSE LET fromErrors ==
             IF apiError.errorsKind = "array"
               THEN IF Len(apiError.errArr) > 0
                       /\ Truthy(apiError.errArr[Len(apiError.errArr)])
                      THEN <<apiError.errArr[Len(apiError.errArr)]>>
                      ELSE <<>>
             ELSE IF apiError.errorsKind = "object"
               THEN SelectSeq(Flatten(apiError.errObj), Truthy)
             ELSE <<>>
       IN  IF Len(fromErrors) = 0
             THEN IF Truthy(apiError.title) THEN <<apiError.title>>
                  ELSE IF Truthy(apiError.message) THEN <<apiError.message>>
                  ELSE <<>>
             ELSE fromErrors

\* the message as the list of pieces join('; ') concatenates
formatErrorMessage(messages) ==
  IF Len(messages) = 0 THEN <<"An unexpected error occurred">>
  ELSE IF Len(messages) = 1 THEN <<messages[1]>>
  ELSE Join(messages)

\* faulty variant: a status 0 failure is handled like an unauthorized one
errorInterceptor_zeroClears(s, error) ==
  IF error.body.kind = "event"
    THEN [s EXCEPT !.toast = <<"A client-side error occurred">>]
  ELSE
    LET errorMessages == extractErrorMessages(error.body, error)
    IN  IF Len(errorMessages) > 0
          THEN [s EXCEPT !.toast = formatErrorMessage(errorMessages)]
        ELSE IF error.status = 0 \/ error.status = 401
          THEN [navigate(clearProfile(clearTokens(s)), "/auth/login")
                  EXCEPT !.toast = <<"Your session has expired.">>]
        ELSE [s EXCEPT !.toast = <<"Http failure response">>]

\* catchError of errorInterceptor: the state it leaves, the toast it shows
\* (toastService.error is called once, at the end) and the rethrow
errorInterceptor(s, error) ==
  LET handled ==
        IF error.body.kind = "event"
          THEN [s EXCEPT !.toast = <<"A client-side error occurred">>]
        ELSE
          LET errorMessages == extractErrorMessages(error.body, error)
          IN  IF Len(errorMessages) > 0
                THEN [s EXCEPT !.toast = formatErrorMessage(errorMessages)]
              ELSE IF error.status = 0
                THEN [s EXCEPT !.toast = <<"Unable to connect to the server.">>]
              ELSE IF error.status = 401
                THEN [navigate(clearProfile(clearTokens(s)), "/auth/login")
                        EXCEPT !.toast = <<"Your session has expired.">>]
              ELSE IF error.status = 403
                THEN [s EXCEPT !.toast = <<"You do not have permission.">>]
              ELSE IF error.status = 404
                THEN [s EXCEPT !.toast = <<"The requested resource was not found.">>]
              ELSE IF error.status = 409
                THEN [s EXCEPT !.toast = <<"A conflict occurred.">>]
              ELSE IF error.status = 500
                THEN [s EXCEPT !.toast = <<"A server error occurred.">>]
              ELSE [s EXCEPT !.toast = <<"Http failure response">>]
  IN  [handled EXCEPT !.errorToasts = @ + 1, !.result = "error"]

\* faulty variant: the account service does not react to auth failures
accountCatchError_none(s, error) == s

\* catchError of AccountService.getProfile / changePassword, behind the interceptor
accountCatchError(s, error) ==
  LET status == error.status
  IN  IF status = 401 \/ status = 403
        THEN navigate(clearProfile(clearTokens(s)), "/auth/login")
        ELSE s

\* faulty variant: the cache is never consulted
getProfile_noCache(s, forceRefresh) ==
  httpSend(s, "profile", NoPayload, "user")

\* synchronous part of AccountService.getProfile(forceRefresh) once subscribed
getProfile(s, forceRefresh) ==
  IF ~forceRefresh /\ Truthy(s.profile)
    THEN [s EXCEPT !.result = "next"]
    ELSE httpSend(s, "profile", NoPayload, "user")

\* AccountService.changePassword(payload) once subscribed
changePassword(s) == httpSend(s, "password", NoPayload, "user")

\* next handler of the subscriber in NavbarComponent.logout
navbarLogoutDone(s) ==
  [navigate(clearProfile(s), "/") EXCEPT !.toast = <<"Logged out successfully">>]

\* ------------------------------------------------------------------ jwt.util.ts
\* A claim of the payload is absent (Null), present but falsy ("") or truthy.
ClaimNames == <<"id", "nameid", "sub", "userId", "user_id">>

NoClaims ==
  [id |-> Null, nameid |-> Null, sub |-> Null, userId |-> Null,
   user_id |-> Null, role |-> Null]

JwtPayloads ==
  [id : {Null, "", "1"}, nameid : {Null, "", "2"}, sub : {Null, "", "42"},
   userId : {Null, "", "4"}, user_id : {Null, "", "5"},
   role : {Null, "", "Admin", "admin", "User"}]

\* The token argument by its shape: null, the empty string, a string without
\* a dot, a string whose middle segment is empty, is no base64, decodes to
\* text that is no JSON, decodes to the JSON value null, or decodes to a JSON
\* object with the given claims.
MalformedShapes == {"oneSegment", "emptyMiddle", "notBase64", "notJson"}

JwtTokens ==
  {[shape |-> sh, claims |-> NoClaims] :
      sh \in {"null", "empty", "jsonNull"} \cup MalformedShapes}
  \cup {[shape |-> "object", claims |-> c] : c \in JwtPayloads}

NullToken == [shape |-> "null", claims |-> NoClaims]

\* what a function returns: it raised, or it returned value
Returned(v) == [raised |-> FALSE, value |-> v]
Raised == [raised |-> TRUE, value |-> Null]

\* a decoded payload: the JSON value null / nothing, or an object
NullPayload == [object |-> FALSE, claims |-> NoClaims]

\* the body of the try block of decodeJwtToken
decodeBody(token) ==
  CASE token.shape = "null" -> Raised             \* null.split(...) throws
    [] token.shape \in {"empty", "oneSegment", "emptyMiddle"}
         -> Returned(NullPayload)               \* if (!base64Url) return null
    [] token.shape = "notBase64" -> Raised        \* atob throws
    [] token.shape = "notJson" -> Raised          \* JSON.parse throws
    [] token.shape = "jsonNull" -> Returned(NullPayload)
    [] OTHER -> Returned([object |-> TRUE, claims |-> token.claims])

\* faulty variant: the try block has no catch
decodeJwtToken_noCatch(token) == decodeBody(token)

decodeJwtToken(token) ==
  LET r == decodeBody(token)
  IN  IF r.raised THEN Returned(NullPayload) ELSE r

NoResult == [fn |-> "none", raised |-> FALSE, value |-> Null]

\* a || b
Or(a, b) == IF Truthy(a) THEN a ELSE b

getUserRole(token) ==
  IF token.shape \in {"null", "empty"}
    THEN Returned(Null)
    ELSE LET payload == decodeJwtToken(token)
         IN  IF payload.raised THEN Raised
             ELSE Returned(Or(payload.value.claims.role, Null))

isAdmin(token) ==
  LET role == getUserRole(token)
  IN  IF role.raised THEN Raised
      ELSE Returned(role.value = "Admin" \/ role.value = "admin")

\* faulty variant: sub is looked up before nameid
getUserId_subFirst(token) ==
  LET payload == decodeJwtToken(token)
      c == payload.value.claims
  IN  IF payload.raised THEN Raised
      ELSE Returned(Or(c.id, Or(c.sub, Or(c.nameid, Or(c.userId,
                      Or(c.user_id, Null))))))

getUserId(token) ==
  LET payload == decodeJwtToken(token)
      c == payload.value.claims
  IN  IF payload.raised THEN Raised
      ELSE Returned(Or(c.id, Or(c.nameid, Or(c.sub, Or(c.userId,
                      Or(c.user_id, Null))))))

\* ------------------------------------------------------------------ tasks
\* Refresh requests subscribed by the service itself -- from the timer
\* callback, from scheduleTokenRefresh's immediate branch and from
\* initializeTokenRefresh -- have the error handler () => {}.
ServiceSubscribers == {"timer", "schedule", "init"}

\* an error of the task's observable is delivered to code outside the service
escapes(s, by) == s.result = "error" /\ by \notin ServiceSubscribers

\* A task ends: the handler's final state becomes the program state.
Commit(s, op, by, expiresIn, status) ==
  /\ s.n <= MaxRequests
  /\ Cardinality(s.armed) <= MaxTimers
  /\ accessToken' = s.at
  /\ refreshToken' = s.rt
  /\ cookies' = s.jar
  /\ refreshTimer' = s.timer
  /\ timers' = s.armed
  /\ inflight' = s.net
  /\ profile' = s.profile
  /\ route' = s.route
  /\ issued' = s.n
  /\ last' = [op |-> op, by |-> by, L |-> expiresIn, status |-> status,
              result |-> s.result, sent |-> s.sent, toast |-> s.toast,
              errorToasts |-> s.errorToasts,
              escaped |-> escapes(s, by)]
  /\ autoFailed' = IF op = "refreshFail" /\ by \in ServiceSubscribers THEN TRUE
                   ELSE IF op = "loginOk" THEN FALSE
                   ELSE autoFailed
  /\ UNCHANGED <<now, failure, jwtToken, jwtResult>>

\* the response of request r is being delivered: r leaves the network
Deliver(r) == [S EXCEPT !.net = @ \ {r}]

Response(pair, expiresIn) ==
  [token |-> pair[1], refreshToken |-> pair[2], expiresIn |-> expiresIn]

\* What an earlier page load can have left in localStorage and the cookie jar:
\* nothing, a session whose expiry marker is still there, or a session
\* without a marker.
PersistedSessions ==
  { [at |-> Null, rt |-> Null, jar |-> {}],
    [at |-> "a1", rt |-> "r1", jar |-> {[value |-> 11000, expires |-> 11000]}],
    [at |-> "a1", rt |-> "r1", jar |-> {}] }

\* The service has been constructed; ngOnInit has not run yet.
Init ==
  /\ \E p \in PersistedSessions :
       /\ accessToken = p.at
       /\ refreshToken = p.rt
       /\ cookies = p.jar
  /\ refreshTimer = NoTimer
  /\ timers = {}
  /\ inflight = {}
  /\ profile = Null
  /\ route = "/"
  /\ now = 0
  /\ issued = 0
  /\ last = [op |-> "init", by |-> "user", L |-> 0, status |-> 0,
             result |-> "none", sent |-> {}, toast |-> <<>>,
             errorToasts |-> 0, escaped |-> FALSE]
  /\ autoFailed = FALSE
  /\ failure = NetworkFailure
  /\ jwtToken = NullToken
  /\ jwtResult = NoResult

\* --- login
Login ==
  /\ Commit(httpSend(S, "login", NoPayload, "user"), "login", "user", 0, 0)

LoginOk(r, pair, expiresIn) ==
  /\ r \in inflight /\ r.kind = "login"
  /\ LET s == loginTap(Deliver(r), Response(pair, expiresIn))
     IN  Commit([s EXCEPT !.result = "next"], "loginOk", r.by, expiresIn, 200)

LoginFail(r, error) ==
  /\ r \in inflight /\ r.kind = "login"
  /\ LET s == errorInterceptor(Deliver(r), error)
     IN  Commit([s EXCEPT !.result = "error"], "loginFail", r.by, 0, error.status)

\* --- refresh
Refresh(payload) ==
  /\ Commit(refreshAccessToken(S, payload, "user"), "refresh", "user", 0, 0)

RefreshOk(r, pair, expiresIn) ==
  /\ r \in inflight /\ r.kind = "refresh"
  /\ LET s == refreshTap(Deliver(r), Response(pair, expiresIn))
     IN  Commit([s EXCEPT !.result = "next"], "refreshOk", r.by, expiresIn, 200)

RefreshFail(r, error) ==
  /\ r \in inflight /\ r.kind = "refresh"
  /\ Commit(refreshFailed(errorInterceptor(Deliver(r), error)),
            "refreshFail", r.by, 0, error.status)

\* --- revoke
Revoke(payload) ==
  /\ Commit(revokeRefreshToken(S, payload, "user"), "revoke", "user", 0, 0)

RevokeOk(r) ==
  /\ r \in inflight /\ r.kind = "revoke"
  /\ LET s == revoked(Deliver(r))
     IN  Commit(IF r.by = "logout" THEN navbarLogoutDone(s) ELSE s,
                "revokeOk", r.by, 0, 200)

RevokeFail(r, error) ==
  /\ r \in inflight /\ r.kind = "revoke"
  /\ LET s == errorInterceptor(Deliver(r), error)
     IN  Commit(IF r.by = "logout"
                  THEN [navbarLogoutDone(s) EXCEPT !.result = "next"]
                  ELSE [s EXCEPT !.result = "error"],
                "revokeFail", r.by, 0, error.status)

\* --- logout from the navbar
Logout ==
  /\ LET s == logout(S)
     IN  Commit(IF s.result = "pending" THEN s ELSE navbarLogoutDone(s),
                "logout", "user", 0, 0)

\* --- the refresh timer fires
TimerFire(t) ==
  /\ t \in timers /\ now >= t.due
  /\ LET s == refreshAccessToken([S EXCEPT !.armed = @ \ {t}], NoPayload, "timer")
     IN  Commit(s, "timerFire", "timer", 0, 0)

\* --- page (re)load: volatile state is lost, storage and cookies stay,
\*     App.ngOnInit runs initializeTokenRefresh
Reload ==
  LET s0 == [S EXCEPT !.timer = NoTimer, !.armed = {}, !.net = {},
                      !.profile = Null]
  IN  Commit(initializeTokenRefresh(s0), "reload", "init", 0, 0)

\* --- AccountService.getProfile
GetProfile(forceRefresh) ==
  /\ Commit(getProfile(S, forceRefresh), "getProfile", "user", 0, 0)

\* the endpoint is protected: only a request that carried a token is answered 200
ProfileOk(r) ==
  /\ r \in inflight /\ r.kind = "profile" /\ Truthy(r.hdr)
  /\ Commit([Deliver(r) EXCEPT !.profile = "profile", !.result = "next"],
            "profileOk", r.by, 0, 200)

ProfileFail(r, error) ==
  /\ r \in inflight /\ r.kind = "profile"
  /\ LET s == accountCatchError(errorInterceptor(Deliver(r), error), error)
     IN  Commit([s EXCEPT !.result = "error"], "profileFail", r.by, 0,
                error.status)

\* --- AccountService.changePassword
ChangePassword ==
  /\ Commit(changePassword(S), "changePassword", "user", 0, 0)

ChangePasswordOk(r) ==
  /\ r \in inflight /\ r.kind = "password" /\ Truthy(r.hdr)
  /\ Commit([Deliver(r) EXCEPT !.result = "next"], "passwordOk", r.by, 0, 200)

ChangePasswordFail(r, error) ==
  /\ r \in inflight /\ r.kind = "password"
  /\ LET s == accountCatchError(errorInterceptor(Deliver(r), error), error)
     IN  Commit([s EXCEPT !.result = "error"], "passwordFail", r.by, 0,
                error.status)

\* --- any other protected endpoint (housing, saved lists, ...)
ApiCall ==
  /\ Commit(httpSend(S, "api", NoPayload, "user"), "apiCall", "user", 0, 0)

ApiOk(r) ==
  /\ r \in inflight /\ r.kind = "api"
  /\ Commit([Deliver(r) EXCEPT !.result = "next"], "apiOk", r.by, 0, 200)

ApiFail(r, error) ==
  /\ r \in inflight /\ r.kind = "api"
  /\ LET s == errorInterceptor(Deliver(r), error)
     IN  Commit([s EXCEPT !.result = "error"], "apiFail", r.by, 0, error.status)

\* --- time passes
Tick ==
  /\ now + TickMs <= MaxTime
  /\ now' = now + TickMs
  /\ UNCHANGED <<accessToken, refreshToken, cookies, refreshTimer, timers,
                 inflight, profile, route, issued, last, autoFailed, failure,
                 jwtToken, jwtResult>>

Payloads == {NoPayload, <<"a1", "r1">>}

Next ==
  \/ Login
  \/ \E r \in inflight, pair \in TokenPairs, l \in Lifetimes : LoginOk(r, pair, l)
  \/ \E r \in inflight, e \in Errors : LoginFail(r, e)
  \/ \E p \in Payloads : Refresh(p)
  \/ \E r \in inflight, pair \in TokenPairs, l \in Lifetimes : RefreshOk(r, pair, l)
  \/ \E r \in inflight, e \in Errors : RefreshFail(r, e)
  \/ \E p \in Payloads : Revoke(p)
  \/ \E r \in inflight : RevokeOk(r)
  \/ \E r \in inflight, e \in Errors : RevokeFail(r, e)
  \/ Logout
  \/ \E t \in timers : TimerFire(t)
  \/ Reload
  \/ \E f \in BOOLEAN : GetProfile(f)
  \/ \E r \in inflight : ProfileOk(r)
  \/ \E r \in inflight, e \in Errors : ProfileFail(r, e)
  \/ ChangePassword
  \/ \E r \in inflight : ChangePasswordOk(r)
  \/ \E r \in inflight, e \in Errors : ChangePasswordFail(r, e)
  \/ ApiCall
  \/ \E r \in inflight : ApiOk(r)
  \/ \E r \in inflight, e \in Errors : ApiFail(r, e)
  \/ Tick

Spec == Init /\ [][Next]_vars

\* ------------------------------------------------------------------ refresh chains
\* The refresh cycle on its own, without a bound on how many requests are sent
\* over time: a request id only tells apart requests that are in flight
\* together, so numbering restarts when none is left.
Recycle(s) == IF s.net = {} THEN [s EXCEPT !.n = 0] ELSE s

ChainRefreshOk(r, pair, expiresIn) ==
  /\ r \in inflight /\ r.kind = "refresh"
  /\ LET s == refreshTap(Recycle(Deliver(r)), Response(pair, expiresIn))
     IN  Commit([s EXCEPT !.result = "next"], "refreshOk", r.by, expiresIn, 200)

\* a response is delivered
Delivery ==
  \/ \E r \in inflight, pair \in TokenPairs, l \in Lifetimes : LoginOk(r, pair, l)
  \/ \E r \in inflight, pair \in TokenPairs, l \in Lifetimes :
       ChainRefreshOk(r, pair, l)
  \/ \E r \in inflight, e \in Errors : RefreshFail(r, e)

NextChain ==
  \/ Login
  \/ Delivery
  \/ \E t \in timers : TimerFire(t)
  \/ Reload
  \/ Tick

\* every request is answered and a due timer fires
SpecChain ==
  /\ Init
  /\ [][NextChain]_vars
  /\ WF_vars(Delivery)
  /\ WF_vars(\E t \in timers : TimerFire(t))

\* ------------------------------------------------------------------ jwt.util.ts alone
\* The functions of jwt.util.ts are pure: a token is drawn, and each function
\* is applied to it.
Ran(fn, out) ==
  /\ jwtResult' = [fn |-> fn, raised |-> out.raised, value |-> out.value]
  /\ UNCHANGED <<accessToken, refreshToken, cookies, refreshTimer, timers,
                 inflight, profile, route, now, issued, last, autoFailed,
                 failure, jwtToken>>

DecodeJwtToken == Ran("decodeJwtToken", decodeJwtToken(jwtToken))

GetUserRole == Ran("getUserRole", getUserRole(jwtToken))

IsAdmin == Ran("isAdmin", isAdmin(jwtToken))

GetUserId == Ran("getUserId", getUserId(jwtToken))

InitJwt ==
  /\ accessToken = Null
  /\ refreshToken = Null
  /\ cookies = {}
  /\ refreshTimer = NoTimer
  /\ timers = {}
  /\ inflight = {}
  /\ profile = Null
  /\ route = "/"
  /\ now = 0
  /\ issued = 0
  /\ last = [op |-> "init", by |-> "user", L |-> 0, status |-> 0,
             result |-> "none", sent |-> {}, toast |-> <<>>,
             errorToasts |-> 0, escaped |-> FALSE]
  /\ autoFailed = FALSE
  /\ failure = NetworkFailure
  /\ jwtToken \in JwtTokens
  /\ jwtResult = NoResult

NextJwt ==
  \/ DecodeJwtToken
  \/ GetUserRole
  \/ IsAdmin
  \/ GetUserId

SpecJwt == InitJwt /\ [][NextJwt]_vars

\* ------------------------------------------------------------------ error interceptor alone
\* The error responses the interceptor is applied to: every status it
\* distinguishes and one it does not, with bodies that carry or lack each
\* source of a message.
ToastStatuses == {0, 400, 401, 403, 404, 409, 500}

ToastBodies ==
  {NoBody, ErrorEventBody, [NoBody EXCEPT !.kind = "string"]}
  \cup
  {[kind |-> "object", permText |-> pt, errorsKind |-> ek[1], errArr |-> ek[2],
    errObj |-> ek[3], title |-> ti, message |-> me] :
      pt \in BOOLEAN,
      ek \in {<<"none", <<>>, <<>>>>,
              <<"array", <<>>, <<>>>>,
              <<"array", <<"Code", "Invalid token">>, <<>>>>,
              <<"array", <<"Code", "">>, <<>>>>,
              <<"object", <<>>, <<>>>>,
              <<"object", <<>>, <<<<"Email taken", "Email invalid">>,
                                  <<"Password too short">>>>>>,
              <<"object", <<>>, <<<<"">>>>>>},
      ti \in {Null, "Bad Request"},
      me \in {Null, "Something failed"}}

ToastErrors == {[status |-> st, body |-> b] : st \in ToastStatuses, b \in ToastBodies}

\* a request of an authenticated page fails with the response in failure
InterceptError ==
  /\ last.op = "init"
  /\ Commit(errorInterceptor(S, failure), "intercept", "user", 0, failure.status)

InitToast ==
  /\ accessToken = "a1"
  /\ refreshToken = "r1"
  /\ cookies = {[value |-> 11000, expires |-> 11000]}
  /\ refreshTimer = NoTimer
  /\ timers = {}
  /\ inflight = {}
  /\ profile = "profile"
  /\ route = "/"
  /\ now = 0
  /\ issued = 0
  /\ last = [op |-> "init", by |-> "user", L |-> 0, status |-> 0,
             result |-> "none", sent |-> {}, toast |-> <<>>,
             errorToasts |-> 0, escaped |-> FALSE]
  /\ autoFailed = FALSE
  /\ failure \in ToastErrors
  /\ jwtToken = NullToken
  /\ jwtResult = NoResult

NextToast == InterceptError

SpecToast == InitToast /\ [][NextToast]_vars

\* ------------------------------------------------------------------ properties
\* the session is cleared: no tokens, no expiry marker, no timer
Cleared ==
  /\ accessToken = Null /\ refreshToken = Null
  /\ cookies = {}
  /\ timers = {} /\ refreshTimer = NoTimer

SessionVars == <<accessToken, refreshToken, cookies, refreshTimer, timers>>

\* C1: right after a successful login response with lifetime L the user is
\* authenticated; if L > 10 exactly one timer is armed, for (L - 10) seconds,
\* and no refresh was sent; if L <= 10 no timer is armed and exactly one
\* refresh request was sent by that same task.
C1_LoginSchedulesRefresh ==
  last.op = "loginOk" =>
    /\ Truthy(accessToken)
    /\ last.L > 10 =>
         /\ Cardinality(timers) = 1
         /\ \A t \in timers : t.id = refreshTimer /\ t.delay = (last.L - 10) * 1000
         /\ last.sent = {}
    /\ last.L <= 10 =>
         /\ timers = {}
         /\ Cardinality(last.sent) = 1
         /\ \A r \in last.sent : r.kind = "refresh" /\ r \in inflight

C1_Witness ==
  /\ last.op = "loginOk" /\ last.L > 10
  /\ Cardinality(timers) = 1

\* C2: in every reachable state at most one refresh timer is armed.
C2_AtMostOneTimer == Cardinality(timers) <= 1

\* a refresh response re-arms the timer while the previous one was still armed:
\* at time 0 no timer can have fired, and handle 2 is only handed out while the
\* service still holds handle 1
C2_Witness ==
  /\ last.op = "refreshOk" /\ now = 0
  /\ refreshTimer = 2 /\ Cardinality(timers) = 1

\* C3: refreshAccessToken called while a token is absent errors at once, sends
\* no request and changes neither tokens, expiry marker nor timer.
C3_RefreshWithoutTokens ==
  [][ ((~Truthy(accessToken) \/ ~Truthy(refreshToken))
         /\ (\E p \in Payloads : Refresh(p)))
      => /\ last'.result = "error"
         /\ last'.sent = {}
         /\ inflight' = inflight
         /\ UNCHANGED SessionVars ]_vars

C3_Witness ==
  /\ last.op = "refresh" /\ last.result = "error"
  /\ accessToken = Null

\* C4: right after a failed refresh response is processed the session is
\* cleared, the user is unauthenticated and the observable has errored.
C4_RefreshFailureClears ==
  last.op = "refreshFail" =>
    /\ Cleared
    /\ ~Truthy(accessToken)
    /\ last.result = "error"

C4_Witness == last.op = "refreshFail" /\ last.status = 0 /\ last.by = "user"

\* C5: right after logout() the session is cleared, any request the task sent
\* left after the clear (it carries no token), and the caller has not seen an
\* error; a revoke response belonging to a logout never surfaces an error.
C5_LogoutClears ==
  /\ last.op = "logout" =>
       /\ Cleared
       /\ last.result # "error"
       /\ \A r \in last.sent : r.hdr = Null
  /\ (last.by = "logout" /\ last.op \in {"revokeOk", "revokeFail"}) =>
       last.result = "next"

\* logout ran while a refresh sent with the session's tokens was in flight
C5_Witness ==
  /\ last.op = "logout" /\ last.result = "next"
  /\ \E r \in inflight : r.kind = "refresh"

\* C6 (as claimed): logout() with both tokens present sends a revoke request
\* carrying the tokens held before the clear.
C6_LogoutSendsRevoke ==
  [][ (Logout /\ Truthy(accessToken) /\ Truthy(refreshToken))
      => \E r \in inflight' \ inflight :
           r.kind = "revoke" /\ r.payload = <<accessToken, refreshToken>> ]_vars

\* the 401 branch of the error interceptor runs
Forced401(error) ==
  /\ error.body.kind # "event"
  /\ extractErrorMessages(error.body, error) = <<>>
  /\ error.status = 401

C8_StaleRefreshInert ==
  [][ (~Truthy(accessToken)
         /\ \E r \in inflight, pair \in TokenPairs, l \in Lifetimes :
              RefreshOk(r, pair, l))
      => /\ ~Truthy(accessToken') /\ ~Truthy(refreshToken')
         /\ cookies' = {} /\ timers' = {} ]_vars

\* C9: between tasks the two tokens are both present or both absent.
C9_TokensPaired == Truthy(accessToken) <=> Truthy(refreshToken)

C9_Witness ==
  /\ last.op = "refreshFail"
  /\ ~Truthy(accessToken) /\ ~Truthy(refreshToken)
  /\ inflight # {}

\* C10 (as claimed): every 401 response that passed the error interceptor left
\* the session cleared, the cached profile empty and the router at /auth/login.
C10_Every401Clears ==
  (last.status = 401
     /\ last.op \in {"loginFail", "refreshFail", "revokeFail", "profileFail",
                     "apiFail"})
  => /\ Cleared
     /\ profile = Null
     /\ route = "/auth/login"

\* C11 (as claimed): a failed login response, whatever its status, leaves
\* tokens, expiry marker and timer exactly as they were.
C11_FailedLoginKeepsSession ==
  [][ last'.op = "loginFail" =>
        \A r \in inflight \ inflight', e \in Errors :
          (e.status = last'.status /\ LoginFail(r, e)) => UNCHANGED SessionVars ]_vars

\* C12 (as claimed): a page load that finds an access token and a persisted
\* expiry instant that lies in the past sends a refresh request at once.
C12_ExpiredAtStartupRefreshes ==
  [][ (Truthy(accessToken) /\ (\E c \in cookies : c.value <= now) /\ Reload)
      => \E r \in inflight' : r.kind = "refresh" /\ r \in last'.sent ]_vars

\* C13: every request that is sent carries as Authorization bearer exactly the
\* access token stored at the moment of sending, and no header when no token
\* is stored; sending a request (login, API call, profile fetch) writes no
\* session state.
C13_BearerIsStoredToken ==
  [][ /\ \A r \in inflight' \ inflight :
           r.hdr = IF Truthy(accessToken') THEN accessToken' ELSE Null
      /\ (last'.op \in {"login", "apiCall", "getProfile"} /\ last' # last)
           => UNCHANGED SessionVars ]_vars

C13_Witness ==
  /\ last.op = "apiCall"
  /\ accessToken = "a2"
  /\ \E r \in last.sent : r.kind = "api" /\ r.hdr = "a2"

\* The effect of a successful refresh response with lifetime l: the tokens of
\* the response are stored and the marker is now + l seconds.
RefreshInstalled(pair, l) ==
  /\ accessToken' = pair[1]
  /\ refreshToken' = pair[2]
  /\ cookies' = {[value |-> now + l * 1000,
                  expires |-> ((now + l * 1000) \div 1000) * 1000]}

\* When the refresh timer fires with tokens stored, one refresh request
\* carrying exactly those tokens is sent and the session is not touched.
TimerFireRefreshes ==
  (/\ last'.op = "timerFire"
   /\ \E t \in timers : TimerFire(t)
   /\ Truthy(accessToken) /\ Truthy(refreshToken))
  => /\ \A t \in timers \ timers' : now >= t.due
     /\ \E r \in inflight' \ inflight :
          /\ r.kind = "refresh" /\ r.by = "timer"
          /\ r.payload = <<accessToken, refreshToken>>
     /\ UNCHANGED <<accessToken, refreshToken, cookies>>

\* C14 (as claimed): the timer-driven refresh sends the current tokens, and
\* when it succeeds the new tokens replace the old ones, the marker is
\* recomputed and a new timer is armed.
C14_RefreshAlwaysRearms ==
  [][ /\ TimerFireRefreshes
      /\ (last'.op = "refreshOk" /\ last'.by = "timer") =>
           \A r \in inflight \ inflight', pair \in TokenPairs :
             RefreshOk(r, pair, last'.L) =>
               /\ RefreshInstalled(pair, last'.L)
               /\ Cardinality(timers') = 1
               /\ \A t \in timers' : t.id = refreshTimer' ]_vars

\* C14 (amended): the timer-driven refresh sends the current tokens; when it
\* succeeds with lifetime l the new tokens replace the old ones and the marker
\* is recomputed; for l > 10 exactly one new timer is armed for l - 10
\* seconds, for l <= 10 no timer is armed and the next refresh is sent at
\* once with the new tokens. In both cases the session stays authenticated.
C14_RefreshRenews ==
  [][ /\ TimerFireRefreshes
      /\ (last'.op = "refreshOk" /\ last'.by = "timer") =>
           \A r \in inflight \ inflight', pair \in TokenPairs :
             RefreshOk(r, pair, last'.L) =>
               /\ RefreshInstalled(pair, last'.L)
               /\ isAuthenticated([S EXCEPT !.at = accessToken'])
               /\ IF last'.L > 10
                    THEN timers' = {[id |-> refreshTimer',
                                     delay |-> (last'.L - 10) * 1000,
                                     due |-> now + (last'.L - 10) * 1000]}
                    ELSE /\ timers' = {}
                         /\ \E q \in inflight' \ inflight :
                              /\ q.kind = "refresh"
                              /\ q.payload = <<pair[1], pair[2]>> ]_vars

C14_Witness ==
  /\ last.op = "refreshOk" /\ last.by = "timer" /\ last.L > 10
  /\ accessToken = "a2" /\ refreshToken = "r2"
  /\ Cardinality(timers) = 1

\* C15: while a profile is cached -- from a successful getProfile until
\* clearProfile, an auth failure or a page load -- getProfile() without
\* forceRefresh emits the cached profile and sends nothing, and
\* getProfile(true) always sends a request.
C15_ProfileCached ==
  [][ /\ last'.op = "profileOk" => Truthy(profile')
      /\ (Truthy(profile) /\ ~Truthy(profile')) =>
           last'.op \in {"logout", "revokeOk", "revokeFail", "loginFail",
                         "refreshFail", "profileFail", "passwordFail",
                         "apiFail", "reload"}
      /\ (last'.op = "getProfile" /\ Truthy(profile) /\ GetProfile(FALSE)) =>
           /\ inflight' = inflight /\ issued' = issued
           /\ last'.result = "next"
           /\ profile' = profile
      /\ (last'.op = "getProfile" /\ GetProfile(TRUE)) =>
           \E r \in inflight' \ inflight : r.kind = "profile" ]_vars

C15_Witness ==
  /\ last.op = "getProfile" /\ last.sent = {} /\ last.result = "next"
  /\ Truthy(profile)

\* C16: when getProfile or changePassword fails with 401, whatever the body,
\* the tokens (with marker and timer) are cleared, the cached profile is null,
\* the route is /auth/login and the caller still receives the error.
C16_Account401Clears ==
  (last.op \in {"profileFail", "passwordFail"} /\ last.status = 401) =>
    /\ Cleared
    /\ profile = Null
    /\ route = "/auth/login"
    /\ last.result = "error"

C16_Witness ==
  /\ last.op = "passwordFail" /\ last.status = 401
  /\ last.toast = <<"Unauthorized">>
  /\ Cleared /\ route = "/auth/login"

\* The claim of an object payload that getUserId is to return: the first one,
\* in the order id, nameid, sub, userId, user_id, that is truthy.
FirstClaim(c) ==
  LET present == {i \in 1..Len(ClaimNames) : Truthy(c[ClaimNames[i]])}
  IN  IF present = {} THEN Null
      ELSE c[ClaimNames[CHOOSE i \in present : \A j \in present : i <= j]]

\* C17: getUserId returns the first truthy claim among id, nameid, sub,
\* userId, user_id, and null when the payload has none of them, when the
\* token does not decode to an object, or when the token is null.
C17_GetUserIdFirstClaim ==
  jwtResult.fn = "getUserId" =>
    /\ ~jwtResult.raised
    /\ jwtResult.value = IF jwtToken.shape = "object"
                           THEN FirstClaim(jwtToken.claims) ELSE Null

C17_Witness ==
  /\ jwtResult.fn = "getUserId"
  /\ jwtToken.shape = "object"
  /\ jwtToken.claims.id = Null /\ jwtToken.claims.nameid = ""
  /\ jwtToken.claims.sub = "42" /\ jwtToken.claims.userId = "4"
  /\ jwtResult.value = "42"

\* C18: no function of jwt.util.ts raises; for a token without a middle
\* segment or with an undecodable payload decodeJwtToken returns null,
\* getUserRole and getUserId return null and isAdmin returns false; isAdmin
\* returns true exactly when the role claim is 'Admin' or 'admin'.
C18_DecodingNeverRaises ==
  /\ ~jwtResult.raised
  /\ jwtToken.shape \in MalformedShapes =>
       /\ jwtResult.fn = "decodeJwtToken" => jwtResult.value = NullPayload
       /\ jwtResult.fn \in {"getUserRole", "getUserId"} => jwtResult.value = Null
       /\ jwtResult.fn = "isAdmin" => jwtResult.value = FALSE
  /\ jwtResult.fn = "isAdmin" =>
       (jwtResult.value <=> /\ jwtToken.shape = "object"
                            /\ jwtToken.claims.role \in {"Admin", "admin"})

C18_Witness ==
  /\ jwtToken.shape = "notJson"
  /\ jwtResult.fn = "isAdmin" /\ jwtResult.value = FALSE

\* C19: isAuthenticated() is true exactly when an access token is in storage,
\* whatever the expiry marker, the refresh token and the timer are.
C19_AuthenticatedIffToken ==
  isAuthenticated(S) <=> accessToken # Null

C19_Witness ==
  /\ isAuthenticated(S)
  /\ getTokenExpiration(S) = NoDate
  /\ refreshTimer = NoTimer /\ timers = {}
  /\ last.op # "init"

\* C20 (as claimed): when a refresh started by the timer or at startup fails,
\* no error reaches a caller and the session is cleared (tokens, marker,
\* timer); from then on the session is unauthenticated until a login
\* succeeds.
C20_AutoRefreshFailureAbsorbed ==
  /\ (last.op = "refreshFail" /\ last.by \in ServiceSubscribers) =>
       /\ ~last.escaped
       /\ Cleared
  /\ autoFailed => ~isAuthenticated(S)

\* C21: when a request other than refresh fails at network level (status 0,
\* no API error body), the toast is the connectivity message, tokens, expiry
\* marker and timer are left as they were and the route does not become
\* /auth/login.
C21_NetworkFailureKeepsSession ==
  [][ (/\ last'.status = 0
       /\ last'.op \in {"loginFail", "revokeFail", "profileFail",
                        "passwordFail", "apiFail"}) =>
        \A r \in inflight \ inflight' :
          (\/ LoginFail(r, NetworkFailure)
           \/ RevokeFail(r, NetworkFailure)
           \/ ProfileFail(r, NetworkFailure)
           \/ ChangePasswordFail(r, NetworkFailure)
           \/ ApiFail(r, NetworkFailure)) =>
            /\ last'.toast = <<"Unable to connect to the server.">>
            /\ UNCHANGED SessionVars
            /\ route' = route ]_vars

C21_Witness ==
  /\ last.op = "apiFail" /\ last.status = 0
  /\ last.toast = <<"Unable to connect to the server.">>
  /\ Truthy(accessToken) /\ Truthy(refreshToken)
  /\ timers # {} /\ cookies # {}

\* C22: a page load that finds an access token and an expiry marker exactly
\* R >= 1 seconds ahead arms exactly one timer for R - 10 seconds and sends
\* nothing when R > 10, and arms no timer and sends one refresh request at
\* once when R <= 10.
C22_StartupSchedules ==
  [][ (last'.op = "reload" /\ Truthy(accessToken) /\ Reload) =>
        \A c \in cookies :
          (c.value > now /\ (c.value - now) % 1000 = 0) =>
            LET R == (c.value - now) \div 1000
            IN  IF R > 10
                  THEN /\ timers' = {[id |-> refreshTimer',
                                      delay |-> (R - 10) * 1000,
                                      due |-> now + (R - 10) * 1000]}
                       /\ last'.sent = {}
                  ELSE /\ timers' = {} /\ refreshTimer' = NoTimer
                       /\ \E r \in inflight' :
                            /\ last'.sent = {r}
                            /\ r.kind = "refresh"
                            /\ r.payload = <<accessToken, refreshToken>> ]_vars

\* startup with 11 seconds left: one timer for 1 second
C22_Witness ==
  /\ last.op = "reload" /\ last.sent = {}
  /\ \E t \in timers : t.delay = 1000 /\ t.id = refreshTimer
  /\ \E c \in cookies : c.value - now = 11000

\* C23: a page load that finds no access token, or no expiry marker that can
\* still be read, does nothing: no request is sent, no timer is armed and
\* tokens and marker stay as they are.
C23_StartupNoOp ==
  [][ (/\ last'.op = "reload"
       /\ Reload
       /\ \/ accessToken = Null
          \/ \A c \in cookies : c.expires <= now) =>
        /\ last'.sent = {} /\ inflight' = {} /\ issued' = issued
        /\ timers' = {} /\ refreshTimer' = NoTimer
        /\ UNCHANGED <<accessToken, refreshToken, cookies>> ]_vars

\* startup with a token whose marker can no longer be read
C23_Witness ==
  /\ last.op = "reload" /\ last.sent = {}
  /\ Truthy(accessToken)
  /\ getTokenExpiration(S) = NoDate
  /\ timers = {}

\* The messages the body of an error response offers: the last element of an
\* errors array, or every field message of an errors object, else the title,
\* else the message.
BodyMessages(b) ==
  LET fromErrors ==
        IF b.errorsKind = "array" /\ Len(b.errArr) > 0
             /\ Truthy(b.errArr[Len(b.errArr)])
          THEN <<b.errArr[Len(b.errArr)]>>
        ELSE IF b.errorsKind = "object"
          THEN SelectSeq(Flatten(b.errObj), Truthy)
        ELSE <<>>
  IN  IF b.kind # "object" THEN <<>>
      ELSE IF fromErrors # <<>> THEN fromErrors
      ELSE IF Truthy(b.title) THEN <<b.title>>
      ELSE IF Truthy(b.message) THEN <<b.message>>
      ELSE <<>>

StatusDefault(st) ==
  CASE st = 0   -> <<"Unable to connect to the server.">>
    [] st = 401 -> <<"Your session has expired.">>
    [] st = 403 -> <<"You do not have permission.">>
    [] st = 404 -> <<"The requested resource was not found.">>
    [] st = 409 -> <<"A conflict occurred.">>
    [] st = 500 -> <<"A server error occurred.">>
    [] OTHER    -> <<"Http failure response">>

ByPrecedence(e) ==
  IF BodyMessages(e.body) # <<>> THEN Join(BodyMessages(e.body))
  ELSE StatusDefault(e.status)

\* C24 (as claimed): the toast is the message(s) of the body when it offers
\* any, joined with '; ', and the default of the status otherwise; one error
\* toast is shown and the error is re-raised.
C24_ToastByPrecedence ==
  last.op = "intercept" =>
    /\ last.errorToasts = 1
    /\ last.result = "error"
    /\ last.toast = ByPrecedence(failure)

\* C24 (amended): as claimed, except that an ErrorEvent body gives the
\* client-side message and a response text holding a permission keyword gives
\* the fixed permission message, both before body messages and status.
C24_ToastByPrecedenceAfterSpecialCases ==
  last.op = "intercept" =>
    /\ last.errorToasts = 1
    /\ last.result = "error"
    /\ last.toast = IF failure.body.kind = "event"
                      THEN <<"A client-side error occurred">>
                    ELSE IF failure.body.permText THEN <<PermissionMessage>>
                    ELSE ByPrecedence(failure)

\* a 401 whose body has field errors: the joined messages win and the session
\* is not cleared
C24_Witness ==
  /\ last.op = "intercept" /\ failure.status = 401
  /\ last.toast = <<"Email taken", "; ", "Email invalid", "; ",
                    "Password too short">>
  /\ Truthy(accessToken)

C26_StaleRefreshFailureInert ==
  [][ (/\ last.op \in {"loginOk", "refreshOk"}
       /\ last'.op = "refreshFail") =>
        \A r \in (inflight \ inflight') \ last.sent :
          r.kind = "refresh" =>
            /\ accessToken' = accessToken
            /\ refreshToken' = refreshToken ]_vars

\* C27 (as claimed): at no time are two refresh requests in flight.
C27_SingleRefreshInFlight ==
  Cardinality({r \in inflight : r.kind = "refresh"}) <= 1

\* C28 (as claimed): after a login or refresh response with a lifetime of at
\* most 10 seconds the client eventually has a timer armed or a cleared
\* session, whatever lifetimes the server goes on answering with.
C28_ImmediateChainTerminates ==
  (last.op \in {"loginOk", "refreshOk"} /\ last.L <= 10)
    ~> (timers # {} \/ Cleared)

\* C29: whenever a refresh timer is armed (a browser timer pending or a
\* handle held by the service), both tokens are in storage.
C29_TimerImpliesTokens ==
  (timers # {} \/ refreshTimer # NoTimer) =>
    (Truthy(accessToken) /\ Truthy(refreshToken))

\* a timer armed by a login, with both tokens stored
C29_Witness ==
  /\ last.op = "loginOk"
  /\ timers # {} /\ refreshTimer # NoTimer
  /\ Truthy(accessToken) /\ Truthy(refreshToken)

\* C30 (as claimed): whenever AccountService holds a cached profile, an access
\* token is in storage.
C30_ProfileImpliesAuthenticated ==
  Truthy(profile) => Truthy(accessToken)

====
